---- MODULE Spec2Model ----
(***************************************************************************)
(* Model of supernote_canvas/__init__.py: the screenshot Locator, the      *)
(* device-bridge probes and capture adapter, the capture orchestrator      *)
(* (_on_capture_click inside draw) and image ingestion                     *)
(* (_process_and_save_image).                                              *)
(*                                                                         *)
(* File names are sequences of tokens: "." is the dot character and every  *)
(* other token is a run of non-dot characters, so os.path.splitext and     *)
(* str.lower are computed on the name and not assumed.                     *)
(***************************************************************************)
EXTENDS Integers, Sequences, FiniteSets, TLC

\* ------------------------------------------------------------------ bounds
MaxEntries == 3      \* entries of a scanned directory
MaxMtime   == 2      \* modification times 1..MaxMtime (ties are possible)

\* ------------------------------------------------------------ Locator data
\* str.lower on one token
Lower(tok) ==
    CASE tok = "PNG"  -> "png"
      [] tok = "Jpg"  -> "jpg"
      [] tok = "JPEG" -> "jpeg"
      [] OTHER        -> tok

LowerSeq(s) == [i \in 1..Len(s) |-> Lower(s[i])]

\* os.path.splitext(name)[1]: from the last dot on, unless only dots precede it
SplitExt(name) ==
    LET dots == {i \in 1..Len(name) : name[i] = "."}
    IN  IF dots = {} THEN <<>>
        ELSE LET last == CHOOSE i \in dots : \A j \in dots : j <= i
             IN  IF \E j \in 1..(last - 1) : name[j] # "."
                 THEN SubSeq(name, last, Len(name))
                 ELSE <<>>

\* exts = {".png", ".jpg", ".jpeg"}
exts == { <<".", "png">>, <<".", "jpg">>, <<".", "jpeg">> }

\* the file names a scanned directory may hold
FileNames == { <<"a", ".", "png">>, <<"b", ".", "PNG">>, <<"c", ".", "Jpg">>,
               <<"d", ".", "jpeg">>, <<"e", ".", "txt">>, <<".", "png">> }

\* mtime 0 stands for os.path.getmtime raising OSError
Mtimes == 0..MaxMtime

DirEntry == [name : FileNames, mtime : Mtimes]

Listings ==
    UNION { { l \in [1..n -> DirEntry] :
                \A i, j \in 1..n : l[i].name = l[j].name => i = j }
            : n \in 0..MaxEntries }

\* what os.listdir(path) does: "ok" or the exception it raises
ListdirOutcomes == {"ok", "FileNotFoundError", "NotADirectoryError", "PermissionError"}

PathNone == [kind |-> "None", absolute |-> FALSE, name |-> <<>>]
PathStr(abs, n) == [kind |-> "str", absolute |-> abs, name |-> n]

\* os.path.join(path, name): absolute iff path is
PathJoin(dirAbs, n) == PathStr(dirAbs, n)
\* os.path.abspath(p): prefixes the working directory to a relative path
AbsPath(p) == [p EXCEPT !.absolute = TRUE]

\* the extension test of line 57 without .lower()
AcceptsExtCaseSensitive(name) == SplitExt(name) \in exts

\* line 56-57: _, ext = os.path.splitext(name); ext.lower() in exts
AcceptsExt(name) == LowerSeq(SplitExt(name)) \in exts

\* the loop of lines 55-63: (mtime, full) for each accepted entry, in listing order
RECURSIVE Candidates(_, _)
Candidates(listing, dirAbs) ==
    IF listing = <<>> THEN <<>>
    ELSE LET e    == Head(listing)
             rest == Candidates(Tail(listing), dirAbs)
         IN  IF AcceptsExt(e.name) /\ e.mtime # 0
             THEN <<[mtime |-> e.mtime, full |-> PathJoin(dirAbs, e.name)]>> \o rest
             ELSE rest

\* the same step of a sort that is not stable under reverse (ties swapped)
InsertDescTiesReversed(sorted, c) ==
    LET before == {i \in 1..Len(sorted) : sorted[i].mtime > c.mtime}
        k      == Cardinality(before)
    IN  SubSeq(sorted, 1, k) \o <<c>> \o SubSeq(sorted, k + 1, Len(sorted))

\* one step of list.sort(key=mtime, reverse=True): stable, so an element goes
\* behind every element whose key is greater or equal
InsertDesc(sorted, c) ==
    LET before == {i \in 1..Len(sorted) : sorted[i].mtime >= c.mtime}
        k      == Cardinality(before)
    IN  SubSeq(sorted, 1, k) \o <<c>> \o SubSeq(sorted, k + 1, Len(sorted))

RECURSIVE SortDesc(_, _)
SortDesc(cands, acc) ==
    IF cands = <<>> THEN acc
    ELSE SortDesc(Tail(cands), InsertDesc(acc, Head(cands)))

\* _latest_screenshot(path)
_latest_screenshot(d) ==
    IF d.listdir # "ok" THEN PathNone
    ELSE LET cands == Candidates(d.listing, d.absolute)
         IN  IF cands = <<>> THEN PathNone
             ELSE AbsPath(SortDesc(cands, <<>>)[1].full)

\* latest_screenshot(path)
latest_screenshot(d) == _latest_screenshot(d)

Directories ==
    [listdir : {"ok"}, absolute : BOOLEAN, listing : Listings]
      \cup [listdir : ListdirOutcomes \ {"ok"}, absolute : BOOLEAN, listing : {<<>>}]

\* ------------------------------------------------------------------ bytes
\* A byte string is described by what the program and the imaging library can
\* tell about it: None, b"", undecodable bytes, an image, or what a broken
\* in-place save leaves behind.  `orient` is an EXIF orientation tag that asks
\* for a transposition, `enc` tells whose encoder produced the bytes,
\* `turned` that the pixels were transposed.
BNone    == [kind |-> "None",    fmt |-> "-", orient |-> FALSE, enc |-> "-", turned |-> FALSE]
BEmpty   == [kind |-> "empty",   fmt |-> "-", orient |-> FALSE, enc |-> "-", turned |-> FALSE]
BRaw     == [kind |-> "raw",     fmt |-> "-", orient |-> FALSE, enc |-> "-", turned |-> FALSE]
BPartial == [kind |-> "partial", fmt |-> "-", orient |-> FALSE, enc |-> "-", turned |-> FALSE]
Img(f, o, e, t) == [kind |-> "img", fmt |-> f, orient |-> o, enc |-> e, turned |-> t]

\* Python truthiness of Optional[bytes]
Truthy(b) == b.kind \notin {"None", "empty"}

\* images as they come from a device, a camera or a screenshot tool
SourceImages == { Img("PNG", FALSE, "src", FALSE), Img("PNG", FALSE, "pil", FALSE),
                  Img("JPEG", FALSE, "src", FALSE), Img("JPEG", TRUE, "src", FALSE) }

\* ---------------------------------------------------------- device bridge
\* The state of the external bridge tool, by the first command that fails.
BridgeStates == { "missing", "notrunnable", "hangs", "badexit",
                  "devtimeout", "devfail", "nodevice", "offline",
                  "captimeout", "capfail", "capempty", "ready" }

VersionFails == {"missing", "notrunnable", "hangs", "badexit"}
DevicesFail  == {"devtimeout", "devfail", "nodevice", "offline"}

RunResult(e, rc, out) == [exc |-> e, returncode |-> rc, stdout |-> out]

\* subprocess.run(["adb", "version"], timeout=5, check=False)
RunVersion(br) ==
    CASE br = "missing"     -> RunResult("FileNotFoundError", 0, <<>>)
      [] br = "notrunnable" -> RunResult("PermissionError", 0, <<>>)
      [] br = "hangs"       -> RunResult("TimeoutExpired", 0, <<>>)
      [] br = "badexit"     -> RunResult("none", 1, <<>>)
      [] OTHER              -> RunResult("none", 0, <<"Android Debug Bridge">>)

\* subprocess.run(["adb", "devices"], text=True, timeout=5, check=False)
RunDevices(br) ==
    CASE br = "devtimeout" -> RunResult("TimeoutExpired", 0, <<>>)
      [] br = "devfail"    -> RunResult("none", 1, <<>>)
      [] br = "nodevice"   -> RunResult("none", 0, <<"List of devices attached", "">>)
      [] br = "offline"    -> RunResult("none", 0, <<"List of devices attached", "SN100 offline", "">>)
      [] OTHER             -> RunResult("none", 0, <<"List of devices attached", "SN100 device", "">>)

\* the screen capture of the device: a PNG
ScreencapData == Img("PNG", FALSE, "src", FALSE)

\* subprocess.run(["adb", "exec-out", "screencap", "-p"], timeout=10, check=True)
RunScreencap(br) ==
    CASE br = "captimeout" -> [exc |-> "TimeoutExpired", stdout |-> BEmpty]
      [] br = "capfail"    -> [exc |-> "CalledProcessError", stdout |-> BEmpty]
      [] br = "capempty"   -> [exc |-> "none", stdout |-> BEmpty]
      [] OTHER             -> [exc |-> "none", stdout |-> ScreencapData]

\* "device" in line
ContainsDevice(line) == line \in {"List of devices attached", "SN100 device"}

\* [line for line in lines if line.strip() and "device" in line]
RECURSIVE DeviceLines(_)
DeviceLines(lines) ==
    IF lines = <<>> THEN <<>>
    ELSE IF Head(lines) # "" /\ ContainsDevice(Head(lines))
         THEN <<Head(lines)>> \o DeviceLines(Tail(lines))
         ELSE DeviceLines(Tail(lines))

\* the result of a call: the exception it raises to its caller, or its value
Returns(v) == [raised |-> "none", value |-> v]
Raises(e)  == [raised |-> e, value |-> FALSE]

\* _is_adb_available(): only FileNotFoundError and TimeoutExpired are caught
_is_adb_available(br) ==
    LET result == RunVersion(br)
    IN  IF result.exc \in {"FileNotFoundError", "TimeoutExpired"} THEN Returns(FALSE)
        ELSE IF result.exc # "none" THEN Raises(result.exc)
        ELSE Returns(result.returncode = 0)

\* _is_device_connected(): the call of _is_adb_available is outside the try
_is_device_connected(br) ==
    LET avail == _is_adb_available(br)
    IN  IF avail.raised # "none" THEN avail
        ELSE IF ~avail.value THEN Returns(FALSE)
        ELSE LET result == RunDevices(br)
             IN  IF result.exc # "none" THEN Returns(FALSE)
                 ELSE IF result.returncode # 0 THEN Returns(FALSE)
                 ELSE Returns(Len(DeviceLines(Tail(result.stdout))) > 0)

\* _is_adb_available() and _is_device_connected(), as draw() evaluates it
ProbeBridge(br) ==
    LET avail == _is_adb_available(br)
    IN  IF avail.raised # "none" THEN avail
        ELSE IF ~avail.value THEN Returns(FALSE)
        ELSE _is_device_connected(br)

\* _capture_via_adb(): both probes run before the try block
_capture_via_adb(br) ==
    LET probe == ProbeBridge(br)
    IN  IF probe.raised # "none" THEN [raised |-> probe.raised, value |-> BNone]
        ELSE IF ~probe.value THEN Returns(BNone)
        ELSE LET result == RunScreencap(br)
             IN  IF result.exc # "none" THEN Returns(BNone)
                 ELSE IF Truthy(result.stdout) THEN Returns(result.stdout)
                 ELSE Returns(BNone)

\* _is_remote_environment(): google.colab importable, or either JupyterHub
\* environment variable set
_is_remote_environment(e) == e.colab \/ e.hubUser \/ e.hubApiUrl

ClassifierInputs == [colab : BOOLEAN, hubUser : BOOLEAN, hubApiUrl : BOOLEAN]

\* -------------------------------------------------------------- ingestion
\* the imaging library: not importable, working, or failing at one step of
\* the orientation fix-up (re-open, exif_transpose, save after the
\* destination was opened for writing)
PilStates == {"absent", "ok", "open_fails", "transform_fails", "save_fails"}

\* the output directory: fine, makedirs fails, open(dest, "wb") fails, or
\* f.write fails after the file was created
IoFaults == {"none", "mkdir", "open", "write"}

NoDest == [ts |-> -1, ext |-> <<>>]
\* os.path.join(DIAGRAM_DIR, f"diagram_{timestamp}{src_ext}")
DestPath(ts, ext) == [ts |-> ts, ext |-> ext]

\* Image.open succeeds on the bytes
Decodable(b) == b.kind = "img"

\* format_map.get(img.format, ".png")
format_map(f) ==
    CASE f = "PNG"      -> <<".", "png">>
      [] f = "JPEG"     -> <<".", "jpg">>
      [] f = "JPEG2000" -> <<".", "jpg">>
      [] OTHER          -> <<".", "png">>

\* line 191 without the `or ".png"` default
SourceExtNoDefault(image_data, source_path, pil) ==
    IF source_path.kind = "str" /\ source_path.name # <<>>
    THEN SplitExt(source_path.name)
    ELSE IF pil # "absent" /\ Decodable(image_data)
         THEN format_map(image_data.fmt)
         ELSE <<".", "png">>

\* lines 189-203: the extension of the destination
SourceExt(image_data, source_path, pil) ==
    IF source_path.kind = "str" /\ source_path.name # <<>>
    THEN LET e == SplitExt(source_path.name)
         IN  IF e # <<>> THEN e ELSE <<".", "png">>
    ELSE IF pil # "absent" /\ Decodable(image_data)
         THEN format_map(image_data.fmt)
         ELSE <<".", "png">>

\* the format Image.save derives from the file extension
SaveFormat(ext) ==
    LET l == LowerSeq(ext)
    IN  CASE l = <<".", "png">>                          -> "PNG"
          [] l \in { <<".", "jpg">>, <<".", "jpeg">> }   -> "JPEG"
          [] OTHER                                       -> "unknown"

\* lines 222-234: what is at dest_path after the orientation fix-up of the
\* file that holds b, and whether the fix-up failed
Normalize(b, ext, pil) ==
    IF pil = "absent" THEN [content |-> b, failed |-> FALSE]
    ELSE IF ~Decodable(b) \/ pil = "open_fails" THEN [content |-> b, failed |-> TRUE]
    ELSE IF pil = "transform_fails" THEN [content |-> b, failed |-> TRUE]
    ELSE IF SaveFormat(ext) = "unknown" THEN [content |-> b, failed |-> TRUE]
    ELSE IF pil = "save_fails" THEN [content |-> BPartial, failed |-> TRUE]
    ELSE [content |-> Img(SaveFormat(ext), FALSE, "pil", b.turned \/ b.orient),
          failed  |-> FALSE]

\* the files of the output directory: a function from destination to content
WriteFile(fs, dest, content) ==
    [d \in (DOMAIN fs) \cup {dest} |-> IF d = dest THEN content ELSE fs[d]]

IngestResult(d, m, f, nf) == [dest |-> d, msg |-> m, fs |-> f, normFailed |-> nf]

\* _process_and_save_image(image_data, source_path)
_process_and_save_image(image_data, source_path, pil, fault, clock, fs) ==
    LET src_ext   == SourceExt(image_data, source_path, pil)
        dest_path == DestPath(clock, src_ext)
        norm      == Normalize(image_data, src_ext, pil)
    IN  IF fault = "mkdir"
        THEN IngestResult(NoDest, "Could not create diagrams directory", fs, FALSE)
        ELSE IF fault = "open"
        THEN IngestResult(NoDest, "Failed to save image", fs, FALSE)
        ELSE IF fault = "write"
        THEN IngestResult(NoDest, "Failed to save image",
                          WriteFile(fs, dest_path, BPartial), FALSE)
        ELSE IngestResult(dest_path, "", WriteFile(fs, dest_path, norm.content),
                          norm.failed)

\* ------------------------------------------------------------ orchestrator
MaxClock == 1        \* seconds the wall clock can advance
MaxSaves == 1        \* capture invocations that reach the output directory
MaxIngests == 1      \* direct calls of the ingestion function

\* upload_widget.value.  Shapes: nothing uploaded; ipywidgets 7 dict of
\* {"content", "metadata"} dicts; dict of (content, metadata) tuples; a
\* sequence of files (ipywidgets 8, not a dict); a dict of anything else.
\* content BNone is a missing "content", name <<>> a missing "name".
UploadNames == { <<>>, <<"u", ".", "jpg">> }
UploadContents == {BNone, BEmpty, Img("PNG", FALSE, "src", FALSE)}
NoUpload == [shape |-> "empty", content |-> BNone, name |-> <<>>]
UploadValues ==
    [shape : {"dict"}, content : UploadContents, name : UploadNames]
      \cup [shape : {"tuple"}, content : {Img("PNG", FALSE, "src", FALSE)},
            name : {<<"u", ".", "jpg">>}]
      \cup [shape : {"sequence", "other"}, content : {Img("PNG", FALSE, "src", FALSE)},
            name : {<<"u", ".", "jpg">>}]
      \cup {NoUpload}

\* the screenshot directory (SCREENSHOT_DIR is an absolute path) as a click finds it
Shot(n, m) == [name |-> n, mtime |-> m]
ScreenshotDirs ==
    { [listdir |-> "FileNotFoundError", absolute |-> TRUE, listing |-> <<>>] }
      \cup [listdir : {"ok"}, absolute : {TRUE},
            listing : { <<>>,
                        <<Shot(<<"e", ".", "txt">>, 1)>>,
                        <<Shot(<<"a", ".", "png">>, 0)>>,
                        <<Shot(<<"a", ".", "png">>, 1)>>,
                        <<Shot(<<"a", ".", "png">>, 1), Shot(<<"c", ".", "Jpg">>, 2)>> }]

\* what a screenshot file holds
FolderContents == { BEmpty, Img("JPEG", TRUE, "src", FALSE) }

\* the closure of draw(): is_remote, adb_available and upload_widget
NoWidget == [open |-> FALSE, is_remote |-> FALSE, adb_available |-> FALSE,
             upload_widget |-> FALSE]

\* line 522 without the adb_available test
UsbEligibleNoProbe(w) == ~w.is_remote

\* line 522: if not is_remote and adb_available
UsbEligible(w) == ~w.is_remote /\ w.adb_available

\* line 530: if image_data is None and is_remote and upload_widget
UploadEligible(image_data, w) ==
    image_data.kind = "None" /\ w.is_remote /\ w.upload_widget

\* lines 533-551: image_data, source_path and method after reading the upload
\* (the metadata of an uploaded file is a mapping, so line 543/547 does not
\* raise and the except branch of line 552 is not entered)
ReadUpload(v) ==
    IF v.shape \in {"dict", "tuple"}
    THEN [read |-> TRUE, image_data |-> v.content,
          source_path |-> PathStr(FALSE, v.name),
          method |-> IF Truthy(v.content) THEN "file upload" ELSE ""]
    ELSE [read |-> FALSE, image_data |-> BNone, source_path |-> PathNone, method |-> ""]

\* line 558 without the image_data test
FolderEligibleAlways(image_data, is_remote) == ~is_remote

\* line 558 without the is_remote test
FolderEligibleRemoteToo(image_data, is_remote) == image_data.kind = "None"

\* line 558 with the image_data test inverted
FolderEligibleInverted(image_data, is_remote) == image_data.kind # "None" /\ ~is_remote

\* line 558: if image_data is None and not is_remote
FolderEligible(image_data, is_remote) == image_data.kind = "None" /\ ~is_remote

\* lines 572-589: the message when there is no image
NoImageMessage(w) ==
    IF w.is_remote THEN "No screenshot uploaded"
    ELSE IF w.adb_available THEN "ADB capture failed. No screenshot files found"
    ELSE "No screenshot files found"

\* lines 594-600 without the early return
ShowsResultAlways(dest_path) == TRUE

\* lines 594-600: the result is displayed unless dest_path is None
ShowsResult(dest_path) == dest_path # NoDest

\* what a handler run did
Quiet == [handler |-> "none", raised |-> "none", probeNow |-> "-",
          usbCalled |-> FALSE, usbYield |-> FALSE,
          uploadRead |-> FALSE, uploadYield |-> FALSE,
          locatorCalled |-> FALSE, fileRead |-> FALSE, folderYield |-> FALSE,
          method |-> "", image_data |-> BNone, source_path |-> PathNone,
          msg |-> "", ingestCalled |-> FALSE, ingestMsg |-> "", dest |-> NoDest,
          normFailed |-> FALSE, pil |-> "-", fault |-> "-", displayed |-> FALSE,
          wrote |-> FALSE]

ProbeText(br) ==
    LET p == ProbeBridge(br)
    IN  IF p.raised # "none" THEN "raises" ELSE IF p.value THEN "true" ELSE "false"

\* lines 521-527, priority 1: the run after the USB strategy
UsbStrategy(w, br) ==
    IF ~UsbEligible(w) THEN [Quiet EXCEPT !.probeNow = ProbeText(br)]
    ELSE LET usb == _capture_via_adb(br)
         IN  [Quiet EXCEPT !.probeNow = ProbeText(br),
                           !.usbCalled = TRUE,
                           !.raised = usb.raised,
                           !.usbYield = Truthy(usb.value),
                           !.image_data = usb.value,
                           !.method = IF Truthy(usb.value) THEN "USB (ADB)" ELSE ""]

\* lines 529-555, priority 2: the run r after the upload strategy
UploadStrategy(w, uv, r) ==
    IF r.raised # "none" \/ ~UploadEligible(r.image_data, w) THEN r
    ELSE LET up == ReadUpload(uv)
         IN  IF ~up.read THEN [r EXCEPT !.uploadRead = TRUE]
             ELSE [r EXCEPT !.uploadRead = TRUE,
                            !.uploadYield = Truthy(up.image_data),
                            !.image_data = up.image_data,
                            !.source_path = up.source_path,
                            !.method = up.method]

\* lines 557-569, priority 3: the run r after the folder strategy
FolderStrategy(w, r, dir, content, readOk) ==
    IF r.raised # "none" \/ ~FolderEligible(r.image_data, w.is_remote) THEN r
    ELSE LET src == _latest_screenshot(dir)
         IN  IF src = PathNone THEN [r EXCEPT !.locatorCalled = TRUE]
             ELSE IF ~readOk THEN [r EXCEPT !.locatorCalled = TRUE, !.fileRead = TRUE]
             ELSE [r EXCEPT !.locatorCalled = TRUE,
                            !.fileRead = TRUE,
                            !.folderYield = Truthy(content),
                            !.image_data = content,
                            !.source_path = src,
                            !.method = "folder"]

\* lines 571-600: the message, or ingestion and display
FinishCapture(w, r, pil, fault, clock, fs) ==
    IF r.raised # "none" THEN [last |-> r, fs |-> fs]
    ELSE IF r.image_data.kind = "None"
    THEN [last |-> [r EXCEPT !.msg = NoImageMessage(w)], fs |-> fs]
    ELSE LET ing == _process_and_save_image(r.image_data, r.source_path, pil, fault,
                                            clock, fs)
         IN  [last |-> [r EXCEPT !.ingestCalled = TRUE,
                                 !.pil = pil, !.fault = fault,
                                 !.ingestMsg = ing.msg,
                                 !.dest = ing.dest,
                                 !.normFailed = ing.normFailed,
                                 !.displayed = ShowsResult(ing.dest),
                                 !.wrote = (ing.fs # fs)],
              fs |-> ing.fs]

VARIABLES scanDir, scanResult, scanDone, widget, upload_value, now, diagrams, saves, last

locVars == <<scanDir, scanResult, scanDone>>
appVars == <<widget, upload_value, now, diagrams, saves, last>>
vars == <<scanDir, scanResult, scanDone, widget, upload_value, now, diagrams, saves, last>>

\* the notebook before the first %diagram
Init ==
    /\ widget = NoWidget
    /\ upload_value = NoUpload
    /\ now = 0
    /\ diagrams = << >>
    /\ saves = 0
    /\ last = Quiet
    /\ scanDir = [listdir |-> "ok", absolute |-> TRUE, listing |-> <<>>]
    /\ scanResult = PathNone
    /\ scanDone = FALSE

\* draw(): probes the environment once and builds the widget
draw ==
    \E inIPython \in BOOLEAN :
    \E is_remote \in {_is_remote_environment(e) : e \in ClassifierInputs} :
    \E probe \in {ProbeBridge(br) : br \in BridgeStates} :
        /\ IF ~inIPython
           THEN /\ last' = [Quiet EXCEPT !.handler = "draw",
                                         !.msg = "can only be displayed inside IPython"]
                /\ UNCHANGED <<widget, upload_value>>
           ELSE IF probe.raised # "none"
           THEN /\ last' = [Quiet EXCEPT !.handler = "draw", !.raised = probe.raised]
                /\ UNCHANGED <<widget, upload_value>>
           ELSE /\ widget' = [open |-> TRUE, is_remote |-> is_remote,
                              adb_available |-> probe.value,
                              upload_widget |-> is_remote]
                /\ upload_value' = NoUpload
                /\ last' = [Quiet EXCEPT !.handler = "draw"]
        /\ UNCHANGED <<now, diagrams, saves, locVars>>

\* _on_capture_click, run on the upload value uv: the three strategies in
\* their order, then the message or ingestion, for every state of the
\* bridge, the screenshot directory, the imaging library and the output
\* directory
_on_capture_click(h, uv) ==
    \E r1 \in {UsbStrategy(widget, br) : br \in BridgeStates} :
    \E r2 \in {UploadStrategy(widget, uv, r1)} :
    \E r3 \in {FolderStrategy(widget, r2, dir, content, readOk) :
                 dir \in ScreenshotDirs, content \in FolderContents, readOk \in BOOLEAN} :
    \E fin \in {FinishCapture(widget, r3, pil, fault, now, diagrams) :
                 pil \in PilStates, fault \in IoFaults} :
        /\ last' = [fin.last EXCEPT !.handler = h]
        /\ diagrams' = fin.fs
        /\ saves' = IF fin.last.ingestCalled THEN saves + 1 ELSE saves

\* the Capture button is clicked
CaptureClick ==
    /\ widget.open
    /\ saves < MaxSaves
    /\ _on_capture_click("click", upload_value)
    /\ UNCHANGED <<widget, upload_value, now, locVars>>

\* the user picks (or clears) a file: the value changes and _on_upload_change
\* triggers a capture when the new value is non-empty
_on_upload_change ==
    /\ widget.open
    /\ widget.upload_widget
    /\ saves < MaxSaves
    /\ \E v \in UploadValues :
         /\ v # upload_value
         /\ upload_value' = v
         /\ IF v.shape # "empty"
            THEN _on_capture_click("upload", v)
            ELSE /\ last' = [Quiet EXCEPT !.handler = "upload_cleared"]
                 /\ UNCHANGED <<diagrams, saves>>
    /\ UNCHANGED <<widget, now, locVars>>

\* _on_close_click: container.close()
_on_close_click ==
    /\ widget.open
    /\ widget' = NoWidget
    /\ upload_value' = NoUpload
    /\ last' = [Quiet EXCEPT !.handler = "close"]
    /\ UNCHANGED <<now, diagrams, saves, locVars>>

\* the wall clock reaches the next second
Tick ==
    /\ now < MaxClock
    /\ now' = now + 1
    /\ last' = [Quiet EXCEPT !.handler = "tick"]
    /\ UNCHANGED <<widget, upload_value, diagrams, saves, locVars>>

Next == draw \/ CaptureClick \/ _on_upload_change \/ _on_close_click \/ Tick

Spec == Init /\ [][Next]_vars

\* ------------------------------------------------ ingestion on its own
\* what the ingestion function is called with
IngestBytes == {BEmpty, BRaw} \cup SourceImages
IngestHints == { PathNone, PathStr(FALSE, <<>>), PathStr(FALSE, <<"u", ".", "jpg">>),
                 PathStr(FALSE, <<"u">>), PathStr(TRUE, <<"b", ".", "PNG">>),
                 PathStr(FALSE, <<"u", ".", "heic">>) }

\* a call _process_and_save_image(image_data, source_path), the n-th at most
IngestUpTo(n) ==
    /\ saves < n
    /\ \E image_data \in IngestBytes, source_path \in IngestHints,
          pil \in PilStates, fault \in IoFaults :
         LET r == _process_and_save_image(image_data, source_path, pil, fault,
                                          now, diagrams)
         IN  /\ diagrams' = r.fs
             /\ last' = [Quiet EXCEPT !.handler = "ingest",
                                       !.image_data = image_data,
                                       !.source_path = source_path,
                                       !.ingestCalled = TRUE,
                                       !.pil = pil, !.fault = fault,
                                       !.ingestMsg = r.msg,
                                       !.dest = r.dest,
                                       !.normFailed = r.normFailed,
                                       !.wrote = (r.fs # diagrams)]
    /\ saves' = saves + 1
    /\ UNCHANGED <<widget, upload_value, now, locVars>>

\* a call _process_and_save_image(image_data, source_path)
Ingest == IngestUpTo(MaxIngests)

IngestNext == Ingest \/ Tick

SpecIngest == Init /\ [][IngestNext]_vars

\* ------------------------------------------- ingestion, called repeatedly
MaxRepeats == 2      \* calls of the ingestion function in a row

\* one more call of _process_and_save_image, possibly within the same second
IngestAgain == IngestUpTo(MaxRepeats)

RepeatNext == IngestAgain \/ Tick

SpecRepeat == Init /\ [][RepeatNext]_vars

\* -------------------------------------------------- Locator on its own
LocInit ==
    /\ scanDir \in Directories
    /\ scanResult = PathNone
    /\ scanDone = FALSE
    /\ widget = NoWidget
    /\ upload_value = NoUpload
    /\ now = 0
    /\ diagrams = << >>
    /\ saves = 0
    /\ last = Quiet

\* a call of the public helper on the directory
Locate ==
    /\ ~scanDone
    /\ scanResult' = latest_screenshot(scanDir)
    /\ scanDone' = TRUE
    /\ UNCHANGED <<scanDir, appVars>>

\* the directory changes between two calls: an entry is added, removed or
\* touched, or the directory itself becomes (un)available
Rescan ==
    /\ scanDone
    /\ \/ \E e \in DirEntry :
             /\ scanDir.listdir = "ok"
             /\ Len(scanDir.listing) < MaxEntries
             /\ \A i \in 1..Len(scanDir.listing) : scanDir.listing[i].name # e.name
             /\ scanDir' = [scanDir EXCEPT !.listing = Append(@, e)]
       \/ /\ scanDir.listdir = "ok"
          /\ scanDir.listing # <<>>
          /\ scanDir' = [scanDir EXCEPT !.listing = Tail(@)]
       \/ \E i \in 1..Len(scanDir.listing), m \in Mtimes :
             /\ scanDir.listdir = "ok"
             /\ scanDir' = [scanDir EXCEPT !.listing[i].mtime = m]
       \/ \E o \in ListdirOutcomes :
             scanDir' = [scanDir EXCEPT !.listdir = o,
                                        !.listing = IF o = "ok" THEN @ ELSE <<>>]
    /\ scanResult' = PathNone
    /\ scanDone' = FALSE
    /\ UNCHANGED appVars

LocNext == Locate \/ Rescan

SpecLocator == LocInit /\ [][LocNext]_vars

\* ================================================================= claims

\* an entry has an image extension: a last dot with a non-dot character
\* somewhere before it, followed by png, jpg or jpeg in any letter case
HasImageExt(n) ==
    /\ Len(n) >= 3
    /\ n[Len(n) - 1] = "."
    /\ n[Len(n)] \in {"png", "PNG", "jpg", "Jpg", "jpeg", "JPEG"}
    /\ \E j \in 1..(Len(n) - 2) : n[j] # "."

\* indices of the entries the Locator is to consider
Considered(d) ==
    {i \in 1..Len(d.listing) : HasImageExt(d.listing[i].name) /\ d.listing[i].mtime # 0}

\* indices of the considered entries of maximal modification time
Newest(d) ==
    {i \in Considered(d) :
        \A j \in Considered(d) : d.listing[j].mtime <= d.listing[i].mtime}

\* the last handler run was a capture invocation that ran to its end
Captured == last.handler \in {"click", "upload"} /\ last.raised = "none"

\* the number of strategies that yielded non-empty bytes
Yields ==
    (IF last.usbYield THEN 1 ELSE 0) + (IF last.uploadYield THEN 1 ELSE 0)
      + (IF last.folderYield THEN 1 ELSE 0)

\* C1: in a capture invocation at most one strategy supplies the bytes
\* handed to Ingestion: once a strategy has yielded non-empty bytes, no later
\* strategy is run (no upload read, no locator call, no file read) and the
\* recorded method is that strategy's.
C1_PriorityShortCircuit ==
    Captured =>
        /\ Yields <= 1
        /\ last.usbYield =>
              /\ ~last.uploadRead /\ ~last.locatorCalled /\ ~last.fileRead
              /\ last.method = "USB (ADB)"
              /\ last.image_data = ScreencapData
        /\ last.uploadYield =>
              /\ ~last.locatorCalled /\ ~last.fileRead
              /\ last.method = "file upload"
              /\ last.image_data = upload_value.content
        /\ last.folderYield => last.method = "folder"
        /\ (last.ingestCalled /\ Truthy(last.image_data)) => Yields = 1

\* C1 witness: a click in which the USB strategy produced the ingested bytes
C1_Witness ==
    /\ Captured
    /\ last.handler = "click"
    /\ last.usbYield
    /\ last.ingestCalled
    /\ last.dest # NoDest

\* C2: a capture invocation in which no strategy records a method ends with
\* "no image available": Ingestion is not invoked, no file is written, and
\* the message is the remote one in a remote widget and a local one in a
\* local widget; this includes an upload of zero bytes.
C2_NoMethodNoImage ==
    (Captured /\ last.method = "") =>
        /\ ~last.ingestCalled
        /\ ~last.wrote
        /\ last.msg = IF widget.is_remote THEN "No screenshot uploaded"
                      ELSE IF widget.adb_available
                           THEN "ADB capture failed. No screenshot files found"
                           ELSE "No screenshot files found"

\* the upload source supplies no bytes: nothing uploaded, or no content
NoUploadBytes == upload_value.shape = "empty" \/ upload_value.content = BNone

\* C3: in a remote widget with no upload bytes supplied a capture invocation
\* yields "no image available" with the remote message and never attempts
\* the USB strategy or the folder strategy, whatever the bridge would answer.
C3_RemoteNoUpload ==
    (Captured /\ widget.is_remote /\ NoUploadBytes) =>
        /\ last.msg = "No screenshot uploaded"
        /\ ~last.usbCalled
        /\ ~last.locatorCalled
        /\ ~last.fileRead
        /\ ~last.ingestCalled
        /\ ~last.wrote

\* C3 witness: a click in a remote widget with nothing uploaded while a
\* device is connected
C3_Witness ==
    /\ Captured
    /\ last.handler = "click"
    /\ widget.is_remote
    /\ upload_value = NoUpload
    /\ last.probeNow = "true"
    /\ last.msg = "No screenshot uploaded"

C5_BridgeNeverRaises == last.raised = "none"

\* C6: when the output directory cannot be created or the destination
\* cannot be written, Ingestion reports the failure and returns no path, and
\* the capture invocation stops without displaying an image; nothing is
\* raised.
C6_IoFailureReported ==
    (last.handler \in {"click", "upload"} /\ last.ingestCalled /\ last.fault # "none") =>
        /\ last.raised = "none"
        /\ last.dest = NoDest
        /\ last.ingestMsg = IF last.fault = "mkdir"
                            THEN "Could not create diagrams directory"
                            ELSE "Failed to save image"
        /\ ~last.displayed

\* C6 witness: a folder capture whose destination file could not be opened
C6_Witness ==
    /\ last.handler = "click"
    /\ last.method = "folder"
    /\ last.ingestCalled
    /\ last.fault = "open"
    /\ last.ingestMsg = "Failed to save image"

\* C7: round trip of Ingestion: for input bytes without orientation
\* metadata the file at the returned path is byte-identical to the input,
\* with or without the imaging library.
C7_RoundTrip ==
    (last.ingestCalled /\ last.dest # NoDest /\ ~last.image_data.orient
       /\ last.pil \in {"absent", "ok"})
        => diagrams[last.dest] = last.image_data

\* C8: a failure of the orientation fix-up never fails Ingestion: the
\* destination path is returned and the file there still holds the bytes
\* that were written, not a truncated or partly overwritten file.
C8_FixupFailureHarmless ==
    (last.ingestCalled /\ last.fault = "none" /\ last.normFailed) =>
        /\ last.dest # NoDest
        /\ diagrams[last.dest] = last.image_data

\* C9: the Locator considers exactly the entries with a png/jpg/jpeg
\* extension (case-insensitive) and a readable modification time; with
\* distinct modification times it returns the absolute path of the newest
\* one, and it returns none when there is no such entry or the directory
\* is missing, not a directory or unreadable.
C9_LocatorNewest ==
    scanDone =>
        /\ (scanDir.listdir # "ok" \/ Considered(scanDir) = {})
              => scanResult = PathNone
        /\ (scanDir.listdir = "ok" /\ Cardinality(Newest(scanDir)) = 1)
              => \E i \in Newest(scanDir) :
                    scanResult = PathStr(TRUE, scanDir.listing[i].name)

\* C9 witness: a relative directory with an ignored entry, an upper-case
\* extension and two considered entries of distinct times has been scanned
C9_Witness ==
    /\ scanDone
    /\ ~scanDir.absolute
    /\ Cardinality(Considered(scanDir)) >= 2
    /\ Cardinality(Newest(scanDir)) = 1
    /\ Cardinality(Considered(scanDir)) < Len(scanDir.listing)
    /\ \E i \in Newest(scanDir) : scanDir.listing[i].name = <<"b", ".", "PNG">>
    /\ scanResult = PathStr(TRUE, <<"b", ".", "PNG">>)

\* C10 as stated: among several entries sharing the maximal modification
\* time the Locator returns the one that comes last in enumeration order.
C10_TieLastEncountered ==
    (scanDone /\ Cardinality(Newest(scanDir)) >= 2)
        => \E i \in Newest(scanDir) :
              /\ \A j \in Newest(scanDir) : j <= i
              /\ scanResult = PathStr(TRUE, scanDir.listing[i].name)

\* C10 amended: among several entries sharing the maximal modification time
\* the Locator returns the one that comes first in enumeration order (the
\* descending sort is stable, and its first element is returned).
C10_TieFirstEncountered ==
    (scanDone /\ Cardinality(Newest(scanDir)) >= 2)
        => \E i \in Newest(scanDir) :
              /\ \A j \in Newest(scanDir) : i <= j
              /\ scanResult = PathStr(TRUE, scanDir.listing[i].name)

\* C10 witness: a scan of a directory whose two newest images are tied
C10_Witness ==
    /\ scanDone
    /\ Cardinality(Newest(scanDir)) >= 2
    /\ scanResult # PathNone

\* the source hint carries an extension: its last but one character is a dot
\* that something other than dots precedes
HintHasExt(h) ==
    /\ h.kind = "str"
    /\ Len(h.name) >= 3
    /\ h.name[Len(h.name) - 1] = "."
    /\ h.name[Len(h.name)] # "."
    /\ \E j \in 1..(Len(h.name) - 2) : h.name[j] # "."

\* a call of Ingestion that returned a path
Ingested == last.handler = "ingest" /\ last.ingestCalled /\ last.dest # NoDest

\* C11 as stated: the file is diagram_<timestamp><ext> in the output
\* directory, <ext> being the extension of the source hint when the hint has
\* one and the PNG extension otherwise, for every input byte sequence.
C11_ExtFromHintElsePng ==
    Ingested =>
        /\ last.dest \in DOMAIN diagrams
        /\ last.dest.ts = now
        /\ last.dest.ext = IF HintHasExt(last.source_path)
                           THEN <<".", last.source_path.name[Len(last.source_path.name)]>>
                           ELSE <<".", "png">>

\* C11 amended: the file is diagram_<timestamp><ext> in the output directory;
\* <ext> is the extension of the source hint when the hint has one, and the
\* PNG extension when the hint is non-empty without an extension; when no
\* hint is given (or it is empty) <ext> follows the format the imaging
\* library detects in the bytes (.jpg for JPEG, .png otherwise) and is the
\* PNG extension when the library is absent or cannot decode the bytes.
C11_ExtFromHintElseDetected ==
    Ingested =>
        /\ last.dest \in DOMAIN diagrams
        /\ last.dest.ts = now
        /\ last.dest.ext =
              IF HintHasExt(last.source_path)
              THEN <<".", last.source_path.name[Len(last.source_path.name)]>>
              ELSE IF last.source_path.kind = "str" /\ last.source_path.name # <<>>
              THEN <<".", "png">>
              ELSE IF last.pil # "absent" /\ last.image_data.kind = "img"
                      /\ last.image_data.fmt = "JPEG"
              THEN <<".", "jpg">>
              ELSE <<".", "png">>

\* C11 witness: JPEG bytes ingested without a hint, the imaging library
\* present: the file is named .jpg
C11_Witness ==
    /\ Ingested
    /\ last.source_path = PathNone
    /\ last.image_data.fmt = "JPEG"
    /\ last.pil = "ok"
    /\ last.dest.ext = <<".", "jpg">>

\* the USB strategy was eligible and the adapter returned no data
UsbNoData == Captured /\ last.usbCalled /\ ~last.usbYield

\* C12: in a local widget where the USB strategy is eligible but the adapter
\* returns no data, the same capture invocation goes on to the folder
\* strategy: a screenshot that is found and read is ingested with method
\* folder and its path as source hint; only when the folder yields nothing
\* does the invocation end, with the local message that names the ADB failure.
C12_UsbFallsThroughToFolder ==
    UsbNoData =>
        /\ ~widget.is_remote
        /\ ~last.uploadRead
        /\ last.locatorCalled
        /\ last.method \in {"folder", ""}
        /\ last.method = "folder" =>
              /\ last.fileRead
              /\ last.ingestCalled
              /\ last.image_data \in FolderContents
              /\ last.source_path.kind = "str"
              /\ last.source_path.absolute
              /\ \E d \in ScreenshotDirs : \E i \in 1..Len(d.listing) :
                    last.source_path.name = d.listing[i].name
        /\ last.method = "" =>
              /\ ~last.ingestCalled
              /\ ~last.wrote
              /\ last.msg = "ADB capture failed. No screenshot files found"

\* C12 witness: the device went away after draw(); the click tried USB, got
\* nothing, and saved the newest screenshot of the folder
C12_Witness ==
    /\ UsbNoData
    /\ last.handler = "click"
    /\ last.probeNow = "false"
    /\ last.method = "folder"
    /\ last.source_path = PathStr(TRUE, <<"c", ".", "Jpg">>)
    /\ last.dest # NoDest
    /\ last.dest.ext = <<".", "Jpg">>

\* C13: a path returned by Ingestion keeps the image that invocation saved:
\* no later step, in particular no later ingestion within the same second,
\* overwrites or replaces the file at the path the last ingestion returned.
C13_SavedFileKept ==
    [][(last.ingestCalled /\ last.dest # NoDest)
         => /\ last.dest \in DOMAIN diagrams'
            /\ diagrams'[last.dest] = diagrams[last.dest]]_vars
====
